---------------------------- MODULE Spec2Model ----------------------------
(***************************************************************************)
(* Model of web-demo/api.py: the FastAPI relay that validates an uploaded  *)
(* image, normalizes it, forwards it to the Imagga tagging service and     *)
(* reshapes the answer.                                                    *)
(*                                                                         *)
(* The server is one asyncio event loop.  Every handler is an `async def`  *)
(* coroutine: it occupies the loop from one await that really suspends to  *)
(* the next.  `requests.post` is a synchronous call made inside a          *)
(* coroutine, so the coroutine keeps the loop while it waits for Imagga.   *)
(***************************************************************************)
EXTENDS Integers, Sequences, FiniteSets

VARIABLES
    IMAGGA_API_KEY,     \* os.getenv("IMAGGA_API_KEY"), read at import
    IMAGGA_API_SECRET,  \* os.getenv("IMAGGA_API_SECRET"), read at import
    server,             \* "starting" | "ready" | "failed"
    running,            \* request whose coroutine holds the event loop, 0 if idle
    req,                \* per request: position, inputs, effects, response
    health              \* last answer of GET /health ("none" before the first)

vars == <<IMAGGA_API_KEY, IMAGGA_API_SECRET, server, running, req, health>>

-----------------------------------------------------------------------------
(* Program constants                                                       *)

MAX_FILE_SIZE_MB == 10
MAX_FILE_SIZE_BYTES == MAX_FILE_SIZE_MB * 1024 * 1024
MAX_IMAGE_DIMENSION == 1024
SUPPORTED_FORMATS == {"image/jpeg", "image/png", "image/webp", "image/bmp"}

-----------------------------------------------------------------------------
(* IEEE-754 binary64 arithmetic.                                           *)
(* Python's int / int and int * float are correctly rounded, ties to even. *)
(* A float is [mant, exp] with value mant * 2^(-exp); mant is the 53-bit   *)
(* significand, held as limbs of LimbBits bits, least significant first,   *)
(* so that every intermediate product stays below 2^31.  The operators     *)
(* are exact for operands below 2^LimbBits (image sides up to 32767).      *)

MantBits == 53
LimbBits == 30 \div 2
LimbBase == 2^LimbBits
MantLimbs == (MantBits + LimbBits - 1) \div LimbBits
TopBits == MantBits - LimbBits * (MantLimbs - 1)

Max2(a, b) == IF a >= b THEN a ELSE b
Min2(a, b) == IF a <= b THEN a ELSE b

\* number of bits of x, 0 <= x < 2^30
BitLen(x) == CHOOSE k \in 0..30 : x < 2^k /\ (k = 0 \/ 2^(k - 1) <= x)

\* number of bits of a limb sequence whose top limb is not 0
NumBits(l) == LimbBits * (Len(l) - 1) + BitLen(l[Len(l)])

\* l without its leading zero limbs
Strip(l) ==
    LET hi == {i \in 1..Len(l) : l[i] # 0}
        n == IF hi = {} THEN 0 ELSE CHOOSE i \in hi : \A j \in hi : j <= i
    IN  SubSeq(l, 1, n)

\* l shifted right by k bits
Shr(l, k) ==
    LET q == k \div LimbBits
        s == k % LimbBits
        n == Len(l) - q
    IN  Strip([i \in 1..n |->
                 (l[q + i] \div 2^s)
                 + (IF q + i + 1 <= Len(l) THEN l[q + i + 1] % 2^s ELSE 0)
                   * 2^(LimbBits - s)])

\* bit j of l (bit 0 is the least significant)
Bit(l, j) == (l[(j \div LimbBits) + 1] \div 2^(j % LimbBits)) % 2

\* some bit below bit j of l is set
LowBitsSet(l, j) ==
    LET q == j \div LimbBits
        s == j % LimbBits
    IN  \/ \E i \in 1..Min2(q, Len(l)) : l[i] # 0
        \/ q < Len(l) /\ l[q + 1] % 2^s # 0

\* l + 1
Inc(l) ==
    LET n == Len(l)
        carry(i) == \A j \in 1..(i - 1) : l[j] = LimbBase - 1
    IN  IF carry(n + 1)
        THEN [i \in 1..(n + 1) |-> IF i = n + 1 THEN 1 ELSE 0]
        ELSE [i \in 1..n |-> IF carry(i) THEN (l[i] + 1) % LimbBase ELSE l[i]]

\* l rounded to MantBits significant bits, ties to even;
\* dropped = number of low bits removed
RoundToMant(l) ==
    LET d == NumBits(l) - MantBits
        keep == Shr(l, d)
        up == Bit(l, d - 1) = 1 /\ (LowBitsSet(l, d - 1) \/ Bit(l, d) = 1)
        inc == Inc(keep)
    IN  IF d <= 0 THEN [mant |-> l, dropped |-> 0]
        ELSE IF ~up THEN [mant |-> keep, dropped |-> d]
        ELSE IF NumBits(inc) > MantBits
             THEN [mant |-> Shr(inc, 1), dropped |-> d + 1]
             ELSE [mant |-> inc, dropped |-> d]

\* number of doublings of a needed to reach m
RECURSIVE NormShift(_, _)
NormShift(a, m) == IF a >= m THEN 0 ELSE 1 + NormShift(2 * a, m)

\* n limbs of the quotient r / m (r < m), most significant first, and the
\* remainder left
RECURSIVE DivLimbs(_, _, _)
DivLimbs(r, m, n) ==
    IF n = 0 THEN [limbs |-> <<>>, rem |-> r]
    ELSE LET num == r * LimbBase
             rest == DivLimbs(num % m, m, n - 1)
         IN  [limbs |-> <<num \div m>> \o rest.limbs, rem |-> rest.rem]

Reverse(s) == [i \in 1..Len(s) |-> s[Len(s) + 1 - i]]

\* a / m as a float, for integers 0 < a < m < 2^LimbBits
FloatDiv(a, m) ==
    LET sh == NormShift(a, m)
        num == a * 2^sh * 2^(TopBits - 1)
        rest == DivLimbs(num % m, m, MantLimbs - 1)
        l == Reverse(<<num \div m>> \o rest.limbs)
        up == 2 * rest.rem > m \/ (2 * rest.rem = m /\ l[1] % 2 = 1)
        inc == Inc(l)
        e == sh + MantBits - 1
    IN  IF ~up THEN [mant |-> l, exp |-> e]
        ELSE IF NumBits(inc) > MantBits
             THEN [mant |-> Shr(inc, 1), exp |-> e - 1]
             ELSE [mant |-> inc, exp |-> e]

\* the exact product w * l, 1 <= w < 2^LimbBits
RECURSIVE MulSmall(_, _, _, _)
MulSmall(w, l, i, c) ==
    IF i > Len(l) THEN (IF c = 0 THEN <<>> ELSE <<c>>)
    ELSE LET t == w * l[i] + c
         IN  <<t % LimbBase>> \o MulSmall(w, l, i + 1, t \div LimbBase)

\* int * float
FloatMulInt(w, f) ==
    LET r == RoundToMant(MulSmall(w, f.mant, 1, 0))
    IN  [mant |-> r.mant, exp |-> f.exp - r.dropped]

RECURSIVE LimbsToInt(_)
LimbsToInt(l) ==
    IF Len(l) = 0 THEN 0
    ELSE l[1] + LimbBase * LimbsToInt(SubSeq(l, 2, Len(l)))

\* the integer part of a positive float below 2^30
Floor(f) == IF f.exp >= NumBits(f.mant) THEN 0 ELSE LimbsToInt(Shr(f.mant, f.exp))

\* faulty variant of PyInt: rounds to the nearest integer
PyIntRound(f) ==
    IF f.exp >= 1 /\ f.exp <= NumBits(f.mant) /\ Bit(f.mant, f.exp - 1) = 1
    THEN Floor(f) + 1
    ELSE Floor(f)

\* int(f): truncation toward zero
PyInt(f) == Floor(f)

-----------------------------------------------------------------------------
(* ImageNormalizer: resize_image_if_needed, image_to_bytes                 *)

\* Image.resize((w, h), LANCZOS): Pillow refuses a size with a side below 1
\* ("height and width must be > 0", a ValueError)
ImageResizeRaises(w, h) == w < 1 \/ h < 1

\* faulty variant of NeedsResize: the height is not looked at
NeedsResizeWidthOnly(w, h) == w > MAX_IMAGE_DIMENSION

\* the condition of line 60
NeedsResize(w, h) == w > MAX_IMAGE_DIMENSION \/ h > MAX_IMAGE_DIMENSION

\* the (new_width, new_height) of lines 61-63
NewDimensions(w, h) ==
    LET scale == FloatDiv(MAX_IMAGE_DIMENSION, Max2(w, h))
    IN  [width |-> PyInt(FloatMulInt(w, scale)),
         height |-> PyInt(FloatMulInt(h, scale))]

\* resized: the branch of line 60 was taken, and new_size is what line 64
\* logs and line 65 asks of Image.resize; width, height: the image returned
resize_image_if_needed(w, h) ==
    IF NeedsResize(w, h)
    THEN LET n == NewDimensions(w, h)
         IN  [raised |-> ImageResizeRaises(n.width, n.height),
              resized |-> TRUE, new_size |-> n,
              width |-> n.width, height |-> n.height]
    ELSE [raised |-> FALSE, resized |-> FALSE,
          new_size |-> [width |-> 0, height |-> 0],
          width |-> w, height |-> h]

-----------------------------------------------------------------------------
(* TaggingClient: call_imagga_api                                          *)

\* s[:k] of a Python sequence
PySlicePrefix(s, k) ==
    IF k >= 0 THEN SubSeq(s, 1, Min2(k, Len(s)))
    ELSE SubSeq(s, 1, Max2(Len(s) + k, 0))

\* `key in v`: dict -> key present, list -> element present, str -> substring
\* present (all given by `has`); None and numbers raise TypeError
PyInRaises(type) == type \notin {"dict", "list", "str"}

\* v[key] with a str key: only a dict can be subscripted that way
PyGetItemRaises(type) == type # "dict"

Raise(exc, code, detail) ==
    [kind |-> "raise", results |-> <<>>, exc |-> exc,
     status_code |-> code, detail |-> detail]

Return(results) ==
    [kind |-> "return", results |-> results, exc |-> "",
     status_code |-> 0, detail |-> ""]

\* {'label': tag['tag']['en'], 'confidence': tag['confidence'] / 100.0};
\* the quotient is kept as the fraction num/den
TagToResult(tag) ==
    [label |-> tag.en, confidence |-> [num |-> tag.confidence, den |-> 100]]

TagWellFormed(tag) == tag.has_tag /\ tag.has_en /\ tag.has_confidence

\* the loop of lines 104-109 over tags[:top_k]
ExtractResults(body, top_k) ==
    LET head == PySlicePrefix(body.tags, top_k)
    IN  IF body.tags_type = "str"
        THEN IF Len(head) = 0 THEN Return(<<>>)
             ELSE Raise("TypeError", 0, "string indices must be integers")
        ELSE IF \E i \in 1..Len(head) : ~TagWellFormed(head[i])
             THEN Raise("KeyError", 0, "missing key")
             ELSE Return([i \in 1..Len(head) |-> TagToResult(head[i])])

\* lines 97-117: the branch for status 200, before the except clauses
ParseTags(response, top_k) ==
    LET body == response.body
        format_error == Raise("HTTPException", 500,
                              "Unexpected response format from Imagga API")
    IN  IF body.json = "invalid"
        THEN Raise(response.json_error, 0, "Expecting value")
        ELSE IF PyInRaises(body.json)
        THEN Raise("TypeError", 0, "argument is not iterable")
        ELSE IF ~body.has_result THEN format_error
        ELSE IF PyGetItemRaises(body.json)
        THEN Raise("TypeError", 0, "indices must be integers")
        ELSE IF PyInRaises(body.result_type)
        THEN Raise("TypeError", 0, "argument is not iterable")
        ELSE IF ~body.has_tags THEN format_error
        ELSE IF PyGetItemRaises(body.result_type)
        THEN Raise("TypeError", 0, "indices must be integers")
        ELSE IF body.tags_type = "null"
        THEN Raise("TypeError", 0, "object of type NoneType has no len()")
        ELSE ExtractResults(body, top_k)

\* faulty variant of HandleStatus: no branch for 401
HandleStatusAuthAs500(response, top_k) ==
    IF response.status_code = 200 THEN ParseTags(response, top_k)
    ELSE IF response.status_code = 429
    THEN Raise("HTTPException", 429, "Rate limit exceeded. Please try again later.")
    ELSE Raise("HTTPException", 500, "Imagga API error")

\* lines 95-137: dispatch on response.status_code
HandleStatus(response, top_k) ==
    IF response.status_code = 200 THEN ParseTags(response, top_k)
    ELSE IF response.status_code = 401
    THEN Raise("HTTPException", 503, "API authentication failed. Check credentials.")
    ELSE IF response.status_code = 429
    THEN Raise("HTTPException", 429, "Rate limit exceeded. Please try again later.")
    ELSE Raise("HTTPException", 500, "Imagga API error")

\* the exception classes `except requests.exceptions.RequestException` catches
RequestExceptions == {"Timeout", "ConnectionError", "RequestsJSONDecodeError"}

\* the whole coroutine, given what requests.post did: `outcome` is a timeout,
\* another transport failure, or an HTTP response
call_imagga_api(outcome, top_k) ==
    LET inner == IF outcome.kind = "timeout" THEN Raise("Timeout", 0, "timed out")
                 ELSE IF outcome.kind = "error"
                 THEN Raise("ConnectionError", 0, "connection failed")
                 ELSE HandleStatus(outcome, top_k)
    IN  IF inner.kind = "raise" /\ inner.exc = "Timeout"
        THEN Raise("HTTPException", 504, "Request to Imagga API timed out")
        ELSE IF inner.kind = "raise" /\ inner.exc \in RequestExceptions
        THEN Raise("HTTPException", 503, "Network error")
        ELSE inner

-----------------------------------------------------------------------------
(* Startup and health                                                      *)

\* os.getenv gives None for an unset variable, "" for an empty one
Unset == "<None>"
EnvValues == {Unset, "", "acc_0123456789abcdef"}

\* Python truthiness of an Optional[str]
Truthy(v) == v # Unset /\ v # ""

\* faulty variant of CredentialsMissing: `and` for `or`
CredentialsMissingBoth(key, secret) == ~Truthy(key) /\ ~Truthy(secret)

\* the condition of line 155
CredentialsMissing(key, secret) == ~Truthy(key) \/ ~Truthy(secret)

\* the body GET /health returns (line 185)
health_check == [status |-> "healthy",
                 api_configured |-> Truthy(IMAGGA_API_KEY) /\ Truthy(IMAGGA_API_SECRET)]

NoHealth == [status |-> "none", api_configured |-> FALSE]

-----------------------------------------------------------------------------
(* Requests                                                                *)

NumRequests == 2
Reqs == 1..NumRequests

NoUpload == [size |-> 0, decodable |-> FALSE, width |-> 1, height |-> 1]
NoBody == [json |-> "none", has_result |-> FALSE, result_type |-> "none",
           has_tags |-> FALSE, tags_type |-> "none", tags |-> <<>>]
NoOutcome == [kind |-> "none", status_code |-> 0, json_error |-> "", body |-> NoBody]
NoResponse == [status |-> 0, detail |-> "", predictions |-> <<>>]

Absent == [pc |-> "absent", content_type |-> "", top_k |-> 0, upload |-> NoUpload,
           file_read |-> FALSE, decode_attempted |-> FALSE, calls |-> 0,
           resized |-> FALSE, new_size |-> [width |-> 0, height |-> 0],
           sent |-> [width |-> 0, height |-> 0],
           upstream |-> NoOutcome, response |-> NoResponse, responses |-> 0]

\* the response FastAPI sends for `raise HTTPException(status_code, detail)`
\* or for a returned IdentifyResponse
Respond(q, code, detail, predictions) ==
    [q EXCEPT !.pc = "done",
              !.response = [status |-> code, detail |-> detail,
                            predictions |-> predictions],
              !.responses = @ + 1]

\* faulty variant of ClampTopK: no upper limit
ClampTopKNoUpper(top_k) == Max2(1, top_k)

\* line 234: min(max(1, top_k), 10)
ClampTopK(top_k) == Min2(Max2(1, top_k), 10)

\* line 206
UnsupportedFormat(content_type) == content_type \notin SUPPORTED_FORMATS

\* faulty variant of TooLarge: `>=` for `>`
TooLargeInclusive(file_size) == file_size >= MAX_FILE_SIZE_BYTES

\* line 216
TooLarge(file_size) == file_size > MAX_FILE_SIZE_BYTES

-----------------------------------------------------------------------------
(* Actions                                                                 *)

Init ==
    /\ IMAGGA_API_KEY \in EnvValues
    /\ IMAGGA_API_SECRET \in EnvValues
    /\ server = "starting"
    /\ running = 0
    /\ req = [r \in Reqs |-> Absent]
    /\ health = NoHealth

\* startup_event: a RuntimeError here aborts the ASGI lifespan startup and the
\* server exits without serving
Startup ==
    /\ server = "starting"
    /\ server' = IF CredentialsMissing(IMAGGA_API_KEY, IMAGGA_API_SECRET)
                 THEN "failed" ELSE "ready"
    /\ UNCHANGED <<IMAGGA_API_KEY, IMAGGA_API_SECRET, running, req, health>>

\* GET /health: a coroutine like the others, it needs the loop
HealthCheck ==
    /\ server = "ready"
    /\ running = 0
    /\ health' = health_check
    /\ UNCHANGED <<IMAGGA_API_KEY, IMAGGA_API_SECRET, server, running, req>>

\* a client sends POST /identify with one of `inputs`; the handler's task
\* then waits for the loop
Arrive(r, inputs) ==
    /\ server = "ready"
    /\ req[r].pc = "absent"
    /\ \E i \in inputs :
          req' = [req EXCEPT ![r] = [Absent EXCEPT !.pc = "queued",
                                                   !.content_type = i.content_type,
                                                   !.top_k = i.top_k,
                                                   !.upload = i.upload]]
    /\ UNCHANGED <<IMAGGA_API_KEY, IMAGGA_API_SECRET, server, running, health>>

\* identify_object up to `await file.read()` (lines 206-213)
Begin(r) ==
    /\ server = "ready"
    /\ running = 0
    /\ req[r].pc = "queued"
    /\ req' = [req EXCEPT ![r] =
                 IF UnsupportedFormat(req[r].content_type)
                 THEN Respond(req[r], 400, "Unsupported format", <<>>)
                 ELSE [req[r] EXCEPT !.pc = "reading", !.file_read = TRUE]]
    /\ UNCHANGED <<IMAGGA_API_KEY, IMAGGA_API_SECRET, server, running, health>>

\* identify_object from the result of file.read() to the point where
\* requests.post has been issued (lines 214-234, 79-93), with the except
\* clauses of lines 251-259
Resume(r) ==
    LET q == req[r]
        file_size == q.upload.size
        opened == [q EXCEPT !.decode_attempted = TRUE]
        image == resize_image_if_needed(q.upload.width, q.upload.height)
        normalized == [opened EXCEPT !.resized = image.resized,
                                     !.new_size = image.new_size]
    IN  /\ server = "ready"
        /\ running = 0
        /\ q.pc = "reading"
        /\ IF TooLarge(file_size)
           THEN /\ req' = [req EXCEPT ![r] = Respond(q, 413, "File too large", <<>>)]
                /\ UNCHANGED running
           ELSE IF file_size = 0
           THEN /\ req' = [req EXCEPT ![r] = Respond(q, 400, "Empty file uploaded", <<>>)]
                /\ UNCHANGED running
           ELSE IF ~q.upload.decodable
           THEN /\ req' = [req EXCEPT ![r] = Respond(opened, 500, "Processing failed", <<>>)]
                /\ UNCHANGED running
           ELSE IF image.raised
           THEN /\ req' = [req EXCEPT ![r] =
                             Respond(normalized, 500, "Processing failed", <<>>)]
                /\ UNCHANGED running
           ELSE /\ req' = [req EXCEPT ![r] =
                             [normalized EXCEPT !.pc = "calling",
                                                !.calls = @ + 1,
                                                !.sent = [width |-> image.width,
                                                          height |-> image.height]]]
                /\ running' = r
        /\ UNCHANGED <<IMAGGA_API_KEY, IMAGGA_API_SECRET, server, health>>

\* faulty variant of Answer: no 404 for an empty result list
AnswerKeepsEmptyResults(q, outcome) ==
    LET got == [q EXCEPT !.upstream = outcome]
        res == call_imagga_api(outcome, ClampTopK(q.top_k))
    IN  IF res.kind = "raise"
        THEN IF res.exc = "HTTPException"
             THEN Respond(got, res.status_code, res.detail, <<>>)
             ELSE Respond(got, 500, "Processing failed", <<>>)
        ELSE Respond(got, 200, "", res.results)

\* what identify_object answers once requests.post has ended with `outcome`
\* (line 234 from the return of the call, lines 236-259)
Answer(q, outcome) ==
    LET got == [q EXCEPT !.upstream = outcome]
        res == call_imagga_api(outcome, ClampTopK(q.top_k))
    IN  IF res.kind = "raise"
        THEN IF res.exc = "HTTPException"
             THEN Respond(got, res.status_code, res.detail, <<>>)
             ELSE Respond(got, 500, "Processing failed", <<>>)
        ELSE IF Len(res.results) = 0
             THEN Respond(got, 404, "No objects detected in the image", <<>>)
             ELSE Respond(got, 200, "", res.results)

\* requests.post returns or raises (at the latest when the 30 s timeout
\* fires) with one of `outcomes`; the rest of call_imagga_api and of
\* identify_object runs and the loop is free again
UpstreamRespond(r, outcomes) ==
    /\ req[r].pc = "calling"
    /\ running = r
    /\ \E o \in outcomes : req' = [req EXCEPT ![r] = Answer(req[r], o)]
    /\ running' = 0
    /\ UNCHANGED <<IMAGGA_API_KEY, IMAGGA_API_SECRET, server, health>>

-----------------------------------------------------------------------------
(* Inputs: what clients upload and what the tagging service answers        *)

MaxTags == 12       \* longest upstream tag list
MaxTopK == 12       \* top_k ranges over -MaxTopK .. MaxTopK
MaxExcess == 100    \* image sides range up to MAX_IMAGE_DIMENSION + MaxExcess

Upload(size, decodable, width, height) ==
    [size |-> size, decodable |-> decodable, width |-> width, height |-> height]

LabelPool == <<"cat", "dog", "tree", "car", "bird">>

\* the i-th tag of an upstream list; the percentages are not sorted
UpstreamTag(i) ==
    [has_tag |-> TRUE, has_en |-> TRUE, has_confidence |-> TRUE,
     en |-> LabelPool[((i - 1) % Len(LabelPool)) + 1],
     confidence |-> (37 * i) % 101]

BadKinds == {"no_tag", "no_en", "no_confidence"}

BadTag(i, kind) ==
    [UpstreamTag(i) EXCEPT !.has_tag = (kind # "no_tag"),
                           !.has_en = (kind # "no_en"),
                           !.has_confidence = (kind # "no_confidence")]

\* n tags, the p-th one malformed (p = 0: none)
TagList(n, p, kind) ==
    [i \in 1..n |-> IF i = p THEN BadTag(i, kind) ELSE UpstreamTag(i)]

WellFormedTagLists == {TagList(n, 0, "no_tag") : n \in 0..MaxTags}

TagLists ==
    WellFormedTagLists \cup
    {TagList(n, p, kind) : n \in 1..MaxTags, p \in 1..MaxTags, kind \in BadKinds}

Body(json, has_result, result_type, has_tags, tags_type, tags) ==
    [json |-> json, has_result |-> has_result, result_type |-> result_type,
     has_tags |-> has_tags, tags_type |-> tags_type, tags |-> tags]

\* bodies of an HTTP 200 answer that carry the expected tag list
ExpectedBodies == {Body("dict", TRUE, "dict", TRUE, "list", t) : t \in TagLists}

\* bodies of an HTTP 200 answer that are not the documented JSON shape
MalformedBodies ==
    {Body("invalid", FALSE, "none", FALSE, "none", <<>>)}
    \cup {Body(j, h, "none", FALSE, "none", <<>>) :
            j \in {"list", "str"}, h \in BOOLEAN}
    \cup {Body(j, FALSE, "none", FALSE, "none", <<>>) : j \in {"null", "num"}}
    \cup {Body("dict", FALSE, "none", FALSE, "none", <<>>)}
    \cup {Body("dict", TRUE, t, h, "none", <<>>) :
            t \in {"list", "str"}, h \in BOOLEAN}
    \cup {Body("dict", TRUE, t, FALSE, "none", <<>>) : t \in {"null", "num"}}
    \cup {Body("dict", TRUE, "dict", FALSE, "none", <<>>)}
    \cup {Body("dict", TRUE, "dict", TRUE, "null", <<>>)}
    \cup {Body("dict", TRUE, "dict", TRUE, "str", TagList(n, 0, "no_tag")) :
            n \in {0, 2}}

Http(code, json_error, body) ==
    [kind |-> "http", status_code |-> code, json_error |-> json_error, body |-> body]

\* response.json() on a body that is not JSON raises
\* requests.exceptions.JSONDecodeError (a RequestException) with
\* requests >= 2.27 and a plain ValueError with older releases
JsonErrors == {"RequestsJSONDecodeError", "ValueError"}

OtherStatuses == {204, 400, 401, 403, 404, 429, 500, 503}

FailureOutcomes ==
    {[NoOutcome EXCEPT !.kind = k] : k \in {"timeout", "error"}}
    \cup {Http(code, "", NoBody) : code \in OtherStatuses}

Outcomes ==
    FailureOutcomes
    \cup {Http(200, "", b) : b \in ExpectedBodies}
    \cup {Http(200, IF b.json = "invalid" THEN e ELSE "", b) :
            b \in MalformedBodies, e \in JsonErrors}

FifteenMB == 15 * 1024 * 1024

ContentTypes == SUPPORTED_FORMATS \cup {"image/gif", "application/pdf"}

TopKs == (0 - MaxTopK)..MaxTopK

Uploads ==
    {Upload(0, FALSE, 1, 1),
     Upload(1, FALSE, 1, 1),
     Upload(20000, TRUE, 640, 480),
     Upload(MAX_FILE_SIZE_BYTES, TRUE, 2000, 1000),
     Upload(MAX_FILE_SIZE_BYTES + 1, TRUE, 640, 480),
     Upload(FifteenMB, TRUE, 640, 480)}

Input(content_type, top_k, upload) ==
    [content_type |-> content_type, top_k |-> top_k, upload |-> upload]

Inputs == {Input(c, k, u) : c \in ContentTypes, k \in TopKs, u \in Uploads}

\* the few inputs and answers the concurrent specification draws from
FewInputs ==
    {Input(c, 3, u) : c \in {"image/jpeg", "image/gif"},
                      u \in {Upload(0, FALSE, 1, 1), Upload(20000, TRUE, 640, 480)}}

FewOutcomes ==
    {[NoOutcome EXCEPT !.kind = "timeout"],
     Http(401, "", NoBody),
     Http(200, "", Body("dict", TRUE, "dict", TRUE, "list", TagList(1, 0, "no_tag")))}

\* image sides for the normalizer
Sides ==
    {1, 2, 3, 500, 512, 561, 1000, 2000}
    \cup ((MAX_IMAGE_DIMENSION - 2)..(MAX_IMAGE_DIMENSION + MaxExcess))

ResizeInputs ==
    {Input("image/jpeg", 3, Upload(20000, TRUE, w, h)) : w \in Sides, h \in Sides}

-----------------------------------------------------------------------------
(* Specifications                                                          *)

\* the server with NumRequests concurrent POST /identify requests
Next ==
    \/ Startup
    \/ HealthCheck
    \/ \E r \in Reqs : Arrive(r, FewInputs)
    \/ \E r \in Reqs : Begin(r)
    \/ \E r \in Reqs : Resume(r)
    \/ \E r \in Reqs : UpstreamRespond(r, FewOutcomes)

Spec == Init /\ [][Next]_vars

\* one request, every content type, top_k, upload and upstream answer
NextRequest ==
    \/ Startup
    \/ Arrive(1, Inputs)
    \/ Begin(1)
    \/ Resume(1)
    \/ UpstreamRespond(1, Outcomes)

SpecRequest == Init /\ [][NextRequest]_vars

\* one request, every image size
NextResize ==
    \/ Startup
    \/ Arrive(1, ResizeInputs)
    \/ Begin(1)
    \/ Resume(1)
    \/ UpstreamRespond(1, FewOutcomes)

SpecResize == Init /\ [][NextResize]_vars

-----------------------------------------------------------------------------
(* Properties                                                              *)

Done(r) == req[r].pc = "done"
Abs(x) == IF x >= 0 THEN x ELSE 0 - x
AllowedTypes == {"image/jpeg", "image/png", "image/webp", "image/bmp"}
TenMiB == 10 * 1024 * 1024
Untouched(q) == ~q.decode_attempted /\ q.calls = 0 /\ q.upstream = NoOutcome

\* C1: validation gates the pipeline.  The checks run in the order MIME type
\* (400), size above 10 MiB (413), empty (400); a request rejected by one of
\* them never has its image decoded and never reaches the tagging service, a
\* MIME rejection does not even read the upload, and a request that passes
\* all three (a file of exactly 10 MiB included) goes on to the decode.
C1_ValidationGates ==
    \A r \in Reqs :
      LET q == req[r] IN
        /\ q.pc \in {"absent", "queued"} => ~q.file_read /\ Untouched(q)
        /\ q.pc = "reading" => q.content_type \in AllowedTypes /\ Untouched(q)
        /\ q.pc = "calling" =>
              /\ q.content_type \in AllowedTypes
              /\ q.upload.size > 0 /\ q.upload.size <= TenMiB
        /\ Done(r) =>
              IF q.content_type \notin AllowedTypes
              THEN q.response.status = 400 /\ ~q.file_read /\ Untouched(q)
              ELSE IF q.upload.size > TenMiB
              THEN q.response.status = 413 /\ Untouched(q)
              ELSE IF q.upload.size = 0
              THEN q.response.status = 400 /\ Untouched(q)
              ELSE q.file_read /\ q.decode_attempted

\* a 15 MB upload of a supported type was answered 413
C1_Witness ==
    \E r \in Reqs :
      /\ Done(r)
      /\ req[r].content_type = "image/png"
      /\ req[r].upload.size = 15 * 1024 * 1024
      /\ req[r].response.status = 413

\* C2: a failing upstream outcome reaches the client with the status of its
\* failure mode, never as the generic handler's "Processing failed":
\* 401 -> 503, 429 -> 429, timeout -> 504, other transport failure -> 503,
\* any other status but 200 -> 500.
C2_UpstreamFailuresSurfaced ==
    \A r \in Reqs :
      LET q == req[r]
          up == q.upstream
          expected ==
              IF up.kind = "timeout" THEN 504
              ELSE IF up.kind = "error" THEN 503
              ELSE IF up.status_code = 401 THEN 503
              ELSE IF up.status_code = 429 THEN 429
              ELSE 500
      IN  Done(r) /\ (up.kind \in {"timeout", "error"}
                      \/ (up.kind = "http" /\ up.status_code # 200))
          => /\ q.response.status = expected
             /\ q.response.detail # "Processing failed"
             /\ q.response.predictions = <<>>

\* the tagging service answered 401 and the client got 503
C2_Witness ==
    \E r \in Reqs :
      /\ Done(r)
      /\ req[r].upstream.kind = "http"
      /\ req[r].upstream.status_code = 401
      /\ req[r].response.status = 503
      /\ req[r].response.detail = "API authentication failed. Check credentials."

\* the shapes of a 200 body the claim lists: not JSON, no 'result', 'result'
\* not an object, no 'tags', or a tag among the first top_k without
\* 'tag'/'en' or 'confidence'
ListedMalformed(body, top_k) ==
    LET k == IF top_k < 1 THEN 1 ELSE IF top_k > 10 THEN 10 ELSE top_k
    IN  \/ body.json # "dict"
        \/ ~body.has_result
        \/ body.result_type # "dict"
        \/ ~body.has_tags
        \/ /\ body.tags_type = "list"
           /\ \E i \in 1..Len(body.tags) :
                 /\ i <= k
                 /\ ~(body.tags[i].has_tag /\ body.tags[i].has_en
                      /\ body.tags[i].has_confidence)

\* C3: an HTTP 200 answer whose body is malformed or lacks the expected
\* fields is always reported to the client as 500, never as 503 or success.
C3_MalformedBodyIs500 ==
    \A r \in Reqs :
      Done(r) /\ req[r].upstream.kind = "http" /\ req[r].upstream.status_code = 200
              /\ ListedMalformed(req[r].upstream.body, req[r].top_k)
      => req[r].response.status = 500

\* C4: for every integer top_k and every well-formed upstream tag list of
\* length n, the predictions are the first min(k, n) tags, k = min(max(1,
\* top_k), 10), in upstream order, each {label: tag.en, confidence:
\* percentage/100}; never more than 10, every confidence within [0, 1].
C4_TopKPrefix ==
    \A r \in Reqs :
      LET q == req[r]
          body == q.upstream.body
          tags == body.tags
          k == IF q.top_k < 1 THEN 1 ELSE IF q.top_k > 10 THEN 10 ELSE q.top_k
          m == IF k < Len(tags) THEN k ELSE Len(tags)
          p == q.response.predictions
      IN  Done(r) /\ q.upstream.kind = "http" /\ q.upstream.status_code = 200
                  /\ body.json = "dict" /\ body.has_result /\ body.result_type = "dict"
                  /\ body.has_tags /\ body.tags_type = "list"
                  /\ (\A i \in 1..Len(tags) :
                        tags[i].has_tag /\ tags[i].has_en /\ tags[i].has_confidence)
          => /\ Len(p) = m
             /\ Len(p) <= 10
             /\ m >= 1 => q.response.status = 200
             /\ \A i \in 1..m :
                   /\ p[i].label = tags[i].en
                   /\ p[i].confidence.den > 0
                   /\ p[i].confidence.num * 100 = tags[i].confidence * p[i].confidence.den
                   /\ 0 <= p[i].confidence.num
                   /\ p[i].confidence.num <= p[i].confidence.den

\* top_k above 10 against more than 10 tags: exactly 10 predictions
C4_Witness ==
    \E r \in Reqs :
      /\ Done(r)
      /\ req[r].top_k > 10
      /\ Len(req[r].upstream.body.tags) > 10
      /\ req[r].response.status = 200
      /\ Len(req[r].response.predictions) = 10

\* C5: a request has exactly one terminal response, either 200 with 1..10
\* predictions or an error status without predictions; an HTTP 200 answer
\* with an empty tag list gives 404.
C5_OneTerminalResponse ==
    \A r \in Reqs :
      LET q == req[r]
          body == q.upstream.body
      IN  /\ ~Done(r) => q.responses = 0 /\ q.response = NoResponse
          /\ Done(r) =>
                /\ q.responses = 1
                /\ \/ /\ q.response.status = 200
                      /\ Len(q.response.predictions) >= 1
                      /\ Len(q.response.predictions) <= 10
                   \/ /\ q.response.status \in {400, 404, 413, 429, 500, 503, 504}
                      /\ q.response.predictions = <<>>
          /\ Done(r) /\ q.upstream.kind = "http" /\ q.upstream.status_code = 200
                     /\ body.json = "dict" /\ body.has_result
                     /\ body.result_type = "dict" /\ body.has_tags
                     /\ body.tags_type = "list" /\ body.tags = <<>>
             => q.response.status = 404

\* the tagging service answered 200 with no tags and the client got 404
C5_Witness ==
    \E r \in Reqs :
      /\ Done(r)
      /\ req[r].upstream.status_code = 200
      /\ req[r].upstream.body.tags_type = "list"
      /\ req[r].upstream.body.has_tags
      /\ req[r].upstream.body.tags = <<>>
      /\ req[r].response.status = 404
      /\ req[r].responses = 1

\* C6: while one request waits in its outbound call, every other request
\* that has not been answered yet can still take its next step.
C6_OthersUnaffected ==
    \A r \in Reqs, o \in Reqs :
      r # o /\ req[r].pc = "calling" /\ req[o].pc \in {"queued", "reading"}
      => ENABLED (Begin(o) \/ Resume(o))

CredentialSet(v) == v # "<None>" /\ v # ""

\* C7: with a credential absent or empty the startup fails and nothing is
\* ever served or sent; whenever a request is being served both credentials
\* are set and /health reports api_configured; the credentials never change.
C7_StartupFailFast ==
    /\ [](/\ server = "ready"
             => CredentialSet(IMAGGA_API_KEY) /\ CredentialSet(IMAGGA_API_SECRET)
          /\ server # "starting"
               /\ ~(CredentialSet(IMAGGA_API_KEY) /\ CredentialSet(IMAGGA_API_SECRET))
             => server = "failed"
          /\ server # "ready"
             => /\ \A r \in Reqs : req[r] = Absent
                /\ running = 0
                /\ health = NoHealth
          /\ \A r \in Reqs :
                req[r].pc # "absent"
                => /\ CredentialSet(IMAGGA_API_KEY) /\ CredentialSet(IMAGGA_API_SECRET)
                   /\ health_check.api_configured
          /\ health # NoHealth => health.api_configured)
    /\ [][/\ IMAGGA_API_KEY' = IMAGGA_API_KEY
          /\ IMAGGA_API_SECRET' = IMAGGA_API_SECRET
          /\ server = "failed" => server' = "failed"]_vars

\* the key is set, the secret is empty, and the startup has failed
C7_Witness ==
    /\ IMAGGA_API_KEY = "acc_0123456789abcdef"
    /\ IMAGGA_API_SECRET = ""
    /\ server = "failed"

\* the sides of an uploaded image and what the normalizer made of them
Normalized(q) == q.decode_attempted /\ q.upload.decodable
LongSide(q) == IF q.upload.width >= q.upload.height
               THEN q.upload.width ELSE q.upload.height
\* |new - side * 1024 / long|, times long
Error1024(q, side, new) == Abs(new * LongSide(q) - side * 1024)

\* C8 as stated: above the cap the new maximum is the cap within 1 px and
\* each new side is less than 1 px from side * cap / max; within the cap the
\* sides are unchanged; the image sent never exceeds the cap.
C8_WithinOnePixelStrict ==
    \A r \in Reqs :
      LET q == req[r]
          n == q.new_size
          nmax == IF n.width >= n.height THEN n.width ELSE n.height
      IN  Normalized(q) =>
            /\ IF LongSide(q) > 1024
               THEN /\ q.resized
                    /\ Abs(nmax - 1024) <= 1
                    /\ Error1024(q, q.upload.width, n.width) < LongSide(q)
                    /\ Error1024(q, q.upload.height, n.height) < LongSide(q)
               ELSE ~q.resized
            /\ q.calls > 0 =>
                  /\ q.sent.width <= 1024 /\ q.sent.height <= 1024
                  /\ LongSide(q) <= 1024 =>
                        q.sent.width = q.upload.width /\ q.sent.height = q.upload.height

\* C8 amended: the same with each new side at most 1 px (not: less than
\* 1 px) from side * cap / max.
C8_WithinOnePixel ==
    \A r \in Reqs :
      LET q == req[r]
          n == q.new_size
          nmax == IF n.width >= n.height THEN n.width ELSE n.height
      IN  Normalized(q) =>
            /\ IF LongSide(q) > 1024
               THEN /\ q.resized
                    /\ Abs(nmax - 1024) <= 1
                    /\ Error1024(q, q.upload.width, n.width) <= LongSide(q)
                    /\ Error1024(q, q.upload.height, n.height) <= LongSide(q)
               ELSE ~q.resized
            /\ q.calls > 0 =>
                  /\ q.sent.width <= 1024 /\ q.sent.height <= 1024
                  /\ LongSide(q) <= 1024 =>
                        q.sent.width = q.upload.width /\ q.sent.height = q.upload.height

\* 1122x561 became 1023x511, a full pixel below 1024x512
C8_Witness ==
    \E r \in Reqs :
      /\ req[r].resized
      /\ req[r].upload.width = 1122 /\ req[r].upload.height = 561
      /\ req[r].new_size = [width |-> 1023, height |-> 511]
      /\ req[r].sent = [width |-> 1023, height |-> 511]

\* C9 as stated: each new side is side * cap / max rounded to the nearest
\* integer.
C9_RoundedToNearest ==
    \A r \in Reqs :
      LET q == req[r] IN
        q.resized =>
          /\ 2 * Error1024(q, q.upload.width, q.new_size.width) <= LongSide(q)
          /\ 2 * Error1024(q, q.upload.height, q.new_size.height) <= LongSide(q)

\* side * 1024 / long truncated, or one less when the quotient is exact
Truncated(q, side, new) ==
    LET quot == (side * 1024) \div LongSide(q)
        rest == (side * 1024) % LongSide(q)
    IN  new = quot \/ (rest = 0 /\ new = quot - 1)

\* C9 amended: each new side is side * cap / max truncated toward zero by
\* int() on the double product (one less than an exact quotient when the
\* product falls just below it); 2000x1000 gives 1024x512.
C9_Truncated ==
    \A r \in Reqs :
      LET q == req[r] IN
        q.resized =>
          /\ Truncated(q, q.upload.width, q.new_size.width)
          /\ Truncated(q, q.upload.height, q.new_size.height)
          /\ q.upload.width = 2000 /\ q.upload.height = 1000
             => q.new_size = [width |-> 1024, height |-> 512]

\* 1025x500 became 1024x499 (500 * 1024 / 1025 = 499.51...)
C9_Witness ==
    \E r \in Reqs :
      /\ req[r].resized
      /\ req[r].upload.width = 1025 /\ req[r].upload.height = 500
      /\ req[r].new_size = [width |-> 1024, height |-> 499]

\* C10: the sides asked of the resize are both at least 1, and a valid,
\* decodable upload is never answered 500 before the outbound call.
C10_NoEmptyResize ==
    \A r \in Reqs :
      LET q == req[r] IN
        /\ q.resized => q.new_size.width >= 1 /\ q.new_size.height >= 1
        /\ Done(r) /\ Normalized(q) /\ q.calls = 0 => q.response.status # 500

=============================================================================
